---------------------------- MODULE Spec2Model ----------------------------
(***************************************************************************)
(* A model of random-winners.c: main, read_lines, shuffle and free_lines.  *)
(*                                                                         *)
(* Characters are strings ("a", CR, LF), a C string is a sequence of       *)
(* characters, a pointer is the number of a heap block (0 is NULL).  The   *)
(* input file is text: it holds no NUL byte.  Array indices keep the       *)
(* source's numbering from 0; slot k of the array is arr[k + 1].           *)
(***************************************************************************)
EXTENDS Integers, Sequences, FiniteSets

(* ------------------------------ constants ------------------------------ *)

MAX_LINE_LENGTH == 256

INITIAL_CAPACITY == 100

(* ------------------------------- bounds -------------------------------- *)

\* Longest file whose every content over Alphabet is tried.
MaxFileLen == 5

\* Number of lines of the longest list that is shuffled.
MaxLines == 4

\* Largest winner count given on the command line for a shuffled list.
MaxWinners == 4

\* rand() returns a value of 0 .. MaxRand.
MaxRand == 4

(* ------------------------------ characters ----------------------------- *)

LF == "LF"

CR == "CR"

Alphabet == {"a", CR, LF}

DigitChars == <<"0", "1", "2", "3", "4", "5", "6", "7", "8", "9">>

Digits == {DigitChars[k] : k \in 1..10}

Min(x, y) == IF x <= y THEN x ELSE y

Prefix(s, n) == SubSeq(s, 1, Min(n, Len(s)))

Drop(s, n) == SubSeq(s, n + 1, Len(s))

(* --------------------------------- atoi -------------------------------- *)

DigitVal(c) == CHOOSE d \in 0..9 : DigitChars[d + 1] = c

RECURSIVE SkipSpaces(_)
SkipSpaces(s) ==
    IF s # <<>> /\ s[1] = " " THEN SkipSpaces(Tail(s)) ELSE s

RECURSIVE AtoiDigits(_, _)
AtoiDigits(s, acc) ==
    IF s = <<>> \/ s[1] \notin Digits
    THEN acc
    ELSE AtoiDigits(Tail(s), acc * 10 + DigitVal(s[1]))

\* atoi: leading white space, an optional sign, then the digits up to the
\* first character that is none; 0 when there is no digit.
Atoi(s) ==
    LET t == SkipSpaces(s)
    IN  IF t # <<>> /\ t[1] = "-" THEN 0 - AtoiDigits(Tail(t), 0)
        ELSE IF t # <<>> /\ t[1] = "+" THEN AtoiDigits(Tail(t), 0)
        ELSE AtoiDigits(t, 0)

(* ------------------------------ read_lines ----------------------------- *)

\* Position of the first LF among the first lim characters of s, 0 if none.
FirstLF(s, lim) ==
    IF \E k \in 1..lim : s[k] = LF
    THEN CHOOSE k \in 1..lim : s[k] = LF /\ \A m \in 1..(k - 1) : s[m] # LF
    ELSE 0

\* Number of characters one fgets(buffer, MAX_LINE_LENGTH, file) takes from
\* the unread stream s: at most MAX_LINE_LENGTH - 1, stopping after an LF.
\* 0 is fgets returning NULL at the end of the file.
FgetsLen(s) ==
    LET lim == Min(Len(s), MAX_LINE_LENGTH - 1)
        nl  == FirstLF(s, lim)
    IN  IF nl > 0 THEN nl ELSE lim

IsLineTerminatorLFOnly(c) == c = LF

IsLineTerminator(c) == c = LF \/ c = CR

RECURSIVE StripTrailing(_)
StripTrailing(buffer) ==
    IF Len(buffer) > 0 /\ IsLineTerminator(buffer[Len(buffer)])
    THEN StripTrailing(SubSeq(buffer, 1, Len(buffer) - 1))
    ELSE buffer

(* --------------------------------- heap -------------------------------- *)

NULL == 0

ArrayBlock == [kind |-> "array", text |-> <<>>, frees |-> 0]

LineBlock(s) == [kind |-> "line", text |-> s, frees |-> 0]

\* malloc that succeeds: the new block's pointer is Len(h) + 1.
Malloc(h, block) == Append(h, block)

\* free(p); free(NULL) does nothing.
Free(h, p) == IF p = NULL THEN h ELSE [h EXCEPT ![p].frees = @ + 1]

\* free(a[k]) for k = 0 .. count - 1: each block is freed once for every one
\* of those slots that points to it.
FreeEach(h, a, count) ==
    [p \in DOMAIN h |->
        [h[p] EXCEPT !.frees = @ + Cardinality({k \in 1..count : a[k] = p})]]

\* free_lines(lines, count): the first count slots, then the array.
FreeLines(h, a, p, count) == Free(FreeEach(h, a, count), p)

(* -------------------------------- shuffle ------------------------------ *)

DrawIndexNaive(i, n, r) == r % n

DrawIndexSattolo(i, n, r) == i + 1 + (r % (n - i - 1))

\* int j = i + rand() % (n - i), r being the value of rand().
DrawIndex(i, n, r) == i + (r % (n - i))

SwapNoTemp(array, i, j) == [array EXCEPT ![i + 1] = array[j + 1]]

\* temp = array[i]; array[i] = array[j]; array[j] = temp.
Swap(array, i, j) ==
    [array EXCEPT ![i + 1] = array[j + 1], ![j + 1] = array[i + 1]]


(* -------------------------------- inputs ------------------------------- *)

RECURSIVE ToDigits(_)
ToDigits(n) ==
    IF n < 10 THEN <<DigitChars[n + 1]>>
    ELSE Append(ToDigits(n \div 10), DigitChars[(n % 10) + 1])

\* argv[2]: the decimal winner counts 0 .. MaxWinners, a negative number,
\* text that is no number, and a number followed by text.
WinnerArgs ==
    {ToDigits(n) : n \in 0..MaxWinners}
        \cup {<<"-", "1">>, <<"x">>, <<" ", "2", "x">>}

\* Every file content of at most MaxFileLen characters.
SmallFiles == UNION {[1..n -> Alphabet] : n \in 0..MaxFileLen}

Run(k) == [x \in 1..k |-> "a"]

\* Lines about as long as the read buffer, and longer.
LongLens ==
    {MAX_LINE_LENGTH - 2, MAX_LINE_LENGTH - 1, MAX_LINE_LENGTH,
     2 * MAX_LINE_LENGTH - 1}

LongTails == {<<>>, <<LF>>, <<CR, LF>>, <<LF, "a">>}

LongFiles == {Run(k) \o t : k \in LongLens, t \in LongTails}

\* k lines "a".
ManyLines(k) == [x \in 1..(2 * k) |-> IF x % 2 = 1 THEN "a" ELSE LF]

\* Lists that fill the initial array, and that make it grow once and twice.
BigCounts ==
    {INITIAL_CAPACITY, INITIAL_CAPACITY + 1, 2 * INITIAL_CAPACITY + 1}

\* The runs of the program: argc, argv[2], whether argv[1] names a file
\* fopen can open, and the file's content.  A list longer than MaxLines is
\* run with a winner count above its length: its shuffle has more outcomes
\* than can be enumerated.
Runs ==
    {[argc |-> 3, arg |-> a, readable |-> TRUE, file |-> f] :
        a \in WinnerArgs,
        f \in SmallFiles \cup LongFiles \cup {ManyLines(MaxLines)}}
    \cup {[argc |-> 3, arg |-> ToDigits(k + 1), readable |-> TRUE,
           file |-> ManyLines(k)] : k \in BigCounts}
    \cup {[argc |-> 3, arg |-> a, readable |-> FALSE, file |-> <<>>] :
            a \in WinnerArgs}
    \cup {[argc |-> c, arg |-> <<>>, readable |-> TRUE, file |-> <<>>] :
            c \in {1, 2, 4}}

RandVals == 0..MaxRand

(* --------------------------------- state ------------------------------- *)

VARIABLES
    argc,          \* main's argc
    argv2,         \* argv[2], meaningful when argc = 3
    fileReadable,  \* whether fopen(argv[1], "r") succeeds
    file0,         \* the content of the file
    stream,        \* the part of the file not read yet
    fileState,     \* "unopened", "open" or "closed"
    closes,        \* number of fclose calls
    pc,            \* position in main / read_lines / shuffle
    num_winners,   \* main's num_winners
    lines,         \* main's lines: pointer to the array, or NULL
    line_count,    \* main's line_count (*count in read_lines)
    capacity,      \* read_lines' capacity
    result,        \* value returned by read_lines
    arr,           \* the slots written of the array lines points to
    heap,          \* the blocks allocated so far, each with its free count
    i,             \* the loop index of shuffle, then of the output loop
    orig,          \* the array as it was when shuffle was called
    draws,         \* the indices j drawn by shuffle so far
    stdout,        \* the lines written to standard output
    stderr,        \* the messages written to standard error
    exit_code,     \* main's return value, -1 while running
    oom,           \* whether a malloc or realloc has returned NULL
    uaf,           \* whether a freed line buffer has been read
    freeArg,       \* the count given to free_lines, -1 if it was not called
    stored         \* number of line buffers stored in the array

vars ==
    <<argc, argv2, fileReadable, file0, stream, fileState, closes, pc,
      num_winners, lines, line_count, capacity, result, arr, heap, i, orig,
      draws, stdout, stderr, exit_code, oom, uaf, freeArg, stored>>

inputVars == <<argc, argv2, fileReadable, file0>>

fileVars == <<stream, fileState, closes>>

listVars == <<lines, line_count, capacity, arr, heap, stored>>

shuffleVars == <<i, orig, draws>>

outVars == <<stdout, stderr>>

Init ==
    /\ \E run \in Runs :
        /\ argc = run.argc
        /\ argv2 = run.arg
        /\ fileReadable = run.readable
        /\ file0 = run.file
    /\ stream = file0
    /\ fileState = "unopened"
    /\ closes = 0
    /\ pc = "main"
    /\ num_winners = 0
    /\ lines = NULL
    /\ line_count = 0
    /\ capacity = 0
    /\ result = 0
    /\ arr = <<>>
    /\ heap = <<>>
    /\ i = 0
    /\ orig = <<>>
    /\ draws = <<>>
    /\ stdout = <<>>
    /\ stderr = <<>>
    /\ exit_code = -1
    /\ oom = FALSE
    /\ uaf = FALSE
    /\ freeArg = -1
    /\ stored = 0

\* return code from main.
Return(code) == pc' = "exit" /\ exit_code' = code

Fclose == fileState' = "closed" /\ closes' = closes + 1 /\ UNCHANGED stream

(* ------------------------ main: the arguments -------------------------- *)

UsageError ==
    /\ pc = "main"
    /\ argc # 3
    /\ stdout' = Append(stdout, [kind |-> "usage"])
    /\ Return(1)
    /\ UNCHANGED <<inputVars, fileVars, num_winners, listVars, result,
                   shuffleVars, stderr, oom, uaf, freeArg>>

ParseArgs ==
    /\ pc = "main"
    /\ argc = 3
    /\ num_winners' = Atoi(argv2)
    /\ pc' = "validate"
    /\ UNCHANGED <<inputVars, fileVars, listVars, result, shuffleVars,
                   outVars, exit_code, oom, uaf, freeArg>>

InvalidWinnerCountLax(n) == n < 0

InvalidWinnerCount(n) == n <= 0

InvalidWinnerCountError ==
    /\ pc = "validate"
    /\ InvalidWinnerCount(num_winners)
    /\ stderr' = Append(stderr, "Number of winners must be a positive integer")
    /\ Return(1)
    /\ UNCHANGED <<inputVars, fileVars, num_winners, listVars, result,
                   shuffleVars, stdout, oom, uaf, freeArg>>

(* ------------------------------ read_lines ----------------------------- *)

FopenFails ==
    /\ pc = "validate"
    /\ ~InvalidWinnerCount(num_winners)
    /\ ~fileReadable
    /\ result' = -1
    /\ pc' = "loaded"
    /\ UNCHANGED <<inputVars, fileVars, num_winners, listVars, shuffleVars,
                   outVars, exit_code, oom, uaf, freeArg>>

Fopen ==
    /\ pc = "validate"
    /\ ~InvalidWinnerCount(num_winners)
    /\ fileReadable
    /\ fileState' = "open"
    /\ pc' = "alloc"
    /\ UNCHANGED <<inputVars, stream, closes, num_winners, listVars, result,
                   shuffleVars, outVars, exit_code, oom, uaf, freeArg>>

AllocArrayFails ==
    /\ pc = "alloc"
    /\ oom' = TRUE
    /\ lines' = NULL
    /\ Fclose
    /\ result' = -2
    /\ pc' = "loaded"
    /\ UNCHANGED <<inputVars, num_winners, line_count, capacity, arr, heap,
                   stored, shuffleVars, outVars, exit_code, uaf, freeArg>>

AllocArray ==
    /\ pc = "alloc"
    /\ capacity' = INITIAL_CAPACITY
    /\ heap' = Malloc(heap, ArrayBlock)
    /\ lines' = Len(heap) + 1
    /\ arr' = <<>>
    /\ line_count' = 0
    /\ pc' = "read"
    /\ UNCHANGED <<inputVars, fileVars, num_winners, result, stored,
                   shuffleVars, outVars, exit_code, oom, uaf, freeArg>>

\* The buffer after one fgets and the stripping loop.
Buffer == StripTrailing(SubSeq(stream, 1, FgetsLen(stream)))

FgetsEof ==
    /\ pc = "read"
    /\ FgetsLen(stream) = 0
    /\ Fclose
    /\ result' = 0
    /\ pc' = "loaded"
    /\ UNCHANGED <<inputVars, num_winners, listVars, shuffleVars, outVars,
                   exit_code, oom, uaf, freeArg>>

SkipEmptyLine ==
    /\ pc = "read"
    /\ FgetsLen(stream) > 0
    /\ Len(Buffer) = 0
    /\ stream' = Drop(stream, FgetsLen(stream))
    /\ UNCHANGED <<inputVars, fileState, closes, pc, num_winners, listVars,
                   result, shuffleVars, outVars, exit_code, oom, uaf, freeArg>>

NeedGrow == line_count >= capacity

\* realloc that succeeds: a new block holding the slots, the old one released.
GrownHeap == IF NeedGrow THEN Malloc(Free(heap, lines), ArrayBlock) ELSE heap

GrownLines == IF NeedGrow THEN Len(heap) + 1 ELSE lines

GrownCapacity == IF NeedGrow THEN capacity * 2 ELSE capacity

GrowFails ==
    /\ pc = "read"
    /\ FgetsLen(stream) > 0
    /\ Len(Buffer) > 0
    /\ NeedGrow
    /\ capacity' = capacity * 2
    /\ oom' = TRUE
    /\ stream' = Drop(stream, FgetsLen(stream))
    /\ fileState' = "closed"
    /\ closes' = closes + 1
    /\ result' = -2
    /\ pc' = "loaded"
    /\ UNCHANGED <<inputVars, num_winners, lines, line_count, arr, heap,
                   stored, shuffleVars, outVars, exit_code, uaf, freeArg>>

LineAllocFails ==
    /\ pc = "read"
    /\ FgetsLen(stream) > 0
    /\ Len(Buffer) > 0
    /\ capacity' = GrownCapacity
    /\ heap' = GrownHeap
    /\ lines' = GrownLines
    /\ arr' = Append(arr, NULL)
    /\ oom' = TRUE
    /\ stream' = Drop(stream, FgetsLen(stream))
    /\ fileState' = "closed"
    /\ closes' = closes + 1
    /\ result' = -2
    /\ pc' = "loaded"
    /\ UNCHANGED <<inputVars, num_winners, line_count, stored, shuffleVars,
                   outVars, exit_code, uaf, freeArg>>

StoreLine ==
    /\ pc = "read"
    /\ FgetsLen(stream) > 0
    /\ Len(Buffer) > 0
    /\ capacity' = GrownCapacity
    /\ heap' = Malloc(GrownHeap, LineBlock(Buffer))
    /\ lines' = GrownLines
    /\ arr' = Append(arr, Len(GrownHeap) + 1)
    /\ line_count' = line_count + 1
    /\ stored' = stored + 1
    /\ stream' = Drop(stream, FgetsLen(stream))
    /\ UNCHANGED <<inputVars, fileState, closes, pc, num_winners, result,
                   shuffleVars, outVars, exit_code, oom, uaf, freeArg>>

(* -------------------- main: after read_lines returns ------------------- *)

OpenError ==
    /\ pc = "loaded"
    /\ result = -1
    /\ stderr' = Append(stderr, "Could not open file")
    /\ Return(1)
    /\ UNCHANGED <<inputVars, fileVars, num_winners, listVars, result,
                   shuffleVars, stdout, oom, uaf, freeArg>>

AllocErrorLeaks ==
    /\ pc = "loaded"
    /\ result = -2
    /\ stderr' = Append(stderr, "Memory allocation failed")
    /\ Return(1)
    /\ UNCHANGED <<inputVars, fileVars, num_winners, listVars, result,
                   shuffleVars, stdout, oom, uaf, freeArg>>

AllocError ==
    /\ pc = "loaded"
    /\ result = -2
    /\ stderr' = Append(stderr, "Memory allocation failed")
    /\ IF lines # NULL
       THEN /\ heap' = FreeLines(heap, arr, lines, line_count)
            /\ freeArg' = line_count
       ELSE UNCHANGED <<heap, freeArg>>
    /\ Return(1)
    /\ UNCHANGED <<inputVars, fileVars, num_winners, lines, line_count,
                   capacity, arr, stored, result, shuffleVars, stdout, oom,
                   uaf>>

EmptyError ==
    /\ pc = "loaded"
    /\ result = 0
    /\ line_count = 0
    /\ stderr' = Append(stderr, "The file contains no valid nicknames")
    /\ heap' = Free(heap, lines)
    /\ Return(1)
    /\ UNCHANGED <<inputVars, fileVars, num_winners, lines, line_count,
                   capacity, arr, stored, result, shuffleVars, stdout, oom,
                   uaf, freeArg>>

TooManyWinnersOrAll(n, count) == n >= count

TooManyWinners(n, count) == n > count

InsufficientErrorAfterHeader ==
    /\ pc = "loaded"
    /\ result = 0
    /\ line_count # 0
    /\ TooManyWinners(num_winners, line_count)
    /\ stdout' = Append(stdout, [kind |-> "header", winners |-> num_winners,
                                 participants |-> line_count])
    /\ stderr' = Append(stderr, "Cannot select that many winners")
    /\ heap' = FreeLines(heap, arr, lines, line_count)
    /\ freeArg' = line_count
    /\ Return(1)
    /\ UNCHANGED <<inputVars, fileVars, num_winners, lines, line_count,
                   capacity, arr, stored, result, shuffleVars, oom, uaf>>

InsufficientError ==
    /\ pc = "loaded"
    /\ result = 0
    /\ line_count # 0
    /\ TooManyWinners(num_winners, line_count)
    /\ stderr' = Append(stderr, "Cannot select that many winners")
    /\ heap' = FreeLines(heap, arr, lines, line_count)
    /\ freeArg' = line_count
    /\ Return(1)
    /\ UNCHANGED <<inputVars, fileVars, num_winners, lines, line_count,
                   capacity, arr, stored, result, shuffleVars, stdout, oom,
                   uaf>>

\* srand(time(NULL)) and the call shuffle(lines, line_count).  The seed is
\* not modelled: every value of rand() is possible at every draw.
CallShuffle ==
    /\ pc = "loaded"
    /\ result = 0
    /\ line_count # 0
    /\ ~TooManyWinners(num_winners, line_count)
    /\ i' = 0
    /\ orig' = arr
    /\ draws' = <<>>
    /\ pc' = "shuffle"
    /\ UNCHANGED <<inputVars, fileVars, num_winners, listVars, result,
                   outVars, exit_code, oom, uaf, freeArg>>

(* -------------------------------- shuffle ------------------------------ *)

\* One iteration of the loop of shuffle, n being line_count.
ShuffleStep ==
    /\ pc = "shuffle"
    /\ i < line_count - 1
    /\ \E r \in RandVals :
        /\ arr' = Swap(arr, i, DrawIndex(i, line_count, r))
        /\ draws' = Append(draws, DrawIndex(i, line_count, r))
    /\ i' = i + 1
    /\ UNCHANGED <<inputVars, fileVars, pc, num_winners, lines, line_count,
                   capacity, heap, stored, result, orig, outVars, exit_code,
                   oom, uaf, freeArg>>

ShuffleReturn ==
    /\ pc = "shuffle"
    /\ ~(i < line_count - 1)
    /\ pc' = "header"
    /\ UNCHANGED <<inputVars, fileVars, num_winners, listVars, result,
                   shuffleVars, outVars, exit_code, oom, uaf, freeArg>>

(* ----------------------------- main: output ---------------------------- *)

PrintHeader ==
    /\ pc = "header"
    /\ stdout' = Append(stdout, [kind |-> "header", winners |-> num_winners,
                                 participants |-> line_count])
    /\ i' = 0
    /\ pc' = "winners"
    /\ UNCHANGED <<inputVars, fileVars, num_winners, listVars, result, orig,
                   draws, stderr, exit_code, oom, uaf, freeArg>>

WinnerSlotFirst(k) == 0

\* The slot printed by iteration k of the output loop: lines[k].
WinnerSlot(k) == k

\* printf("  %d. %s\n", i + 1, lines[i]); entry is the pointer that was read.
PrintWinner ==
    /\ pc = "winners"
    /\ i < num_winners
    /\ LET p == arr[WinnerSlot(i) + 1]
       IN  /\ stdout' = Append(stdout, [kind |-> "winner", rank |-> i + 1,
                                        name |-> heap[p].text, entry |-> p])
           /\ uaf' = (uaf \/ heap[p].frees > 0)
    /\ i' = i + 1
    /\ UNCHANGED <<inputVars, fileVars, pc, num_winners, listVars, result,
                   orig, draws, stderr, exit_code, oom, freeArg>>

\* The blank line, free_lines(lines, line_count) and return 0.
CleanUp ==
    /\ pc = "winners"
    /\ ~(i < num_winners)
    /\ stdout' = Append(stdout, [kind |-> "blank"])
    /\ heap' = FreeLines(heap, arr, lines, line_count)
    /\ freeArg' = line_count
    /\ Return(0)
    /\ UNCHANGED <<inputVars, fileVars, num_winners, lines, line_count,
                   capacity, arr, stored, result, shuffleVars, stderr, oom,
                   uaf>>

Next ==
    \/ UsageError
    \/ ParseArgs
    \/ InvalidWinnerCountError
    \/ FopenFails
    \/ Fopen
    \/ AllocArrayFails
    \/ AllocArray
    \/ FgetsEof
    \/ SkipEmptyLine
    \/ GrowFails
    \/ LineAllocFails
    \/ StoreLine
    \/ OpenError
    \/ AllocError
    \/ EmptyError
    \/ InsufficientError
    \/ CallShuffle
    \/ ShuffleStep
    \/ ShuffleReturn
    \/ PrintHeader
    \/ PrintWinner
    \/ CleanUp

Spec == Init /\ [][Next]_vars

(* ------------------------ what the claims speak of --------------------- *)

Range(s) == {s[k] : k \in 1..Len(s)}

IsWinnerLine(x) == x.kind = "winner"

IsDrawLine(x) == x.kind = "winner" \/ x.kind = "header"

\* The winner lines on standard output, in the order printed.
WinnerLines == SelectSeq(stdout, IsWinnerLine)

\* The entries (pointers) printed as winners, in the order printed.
WinnerEntries == [k \in 1..Len(WinnerLines) |-> WinnerLines[k].entry]

\* The strings the array's first count slots point to.
Texts(a, count) == [k \in 1..count |-> heap[a[k]].text]

Succeeded == pc = "exit" /\ exit_code = 0

\* shuffle has been called (and may have returned).
InOrAfterShuffle == pc \in {"shuffle", "header", "winners"} \/ Succeeded

\* shuffle has returned.
AfterShuffle == pc \in {"header", "winners"} \/ Succeeded

RECURSIVE Fact(_)
Fact(n) == IF n <= 1 THEN 1 ELSE n * Fact(n - 1)

\* The indices iteration k (from 0) of shuffle can draw for a list of n.
DrawRange(k, n) == {DrawIndex(k, n, r) : r \in RandVals}

\* The sequences (j_0, ..., j_{n-2}) shuffle can draw for a list of n.
DrawSeqs(n) ==
    {d \in [1..(n - 1) -> 0..(n - 1)] :
        \A k \in 1..(n - 1) : d[k] \in DrawRange(k - 1, n)}

\* The array after the iterations 0 .. Len(d) - 1 of shuffle drew d.
RECURSIVE ShuffleWith(_, _)
ShuffleWith(a, d) ==
    IF d = <<>> THEN a
    ELSE Swap(ShuffleWith(a, SubSeq(d, 1, Len(d) - 1)), Len(d) - 1, d[Len(d)])

(* -------------------------------- C1 ----------------------------------- *)

\* C1: a run that ends with exit code 0 has printed exactly num_winners
\* winner lines, each one showing an entry of the loaded list with that
\* entry's text, and no entry of the list is printed twice.
C1_WinnersDistinct ==
    Succeeded =>
        /\ Len(WinnerLines) = num_winners
        /\ \A k \in 1..Len(WinnerLines) :
            /\ WinnerLines[k].entry \in Range(orig)
            /\ WinnerLines[k].name = heap[WinnerLines[k].entry].text
            /\ WinnerLines[k].rank = k
        /\ \A k, m \in 1..Len(WinnerLines) :
            k # m => WinnerLines[k].entry # WinnerLines[m].entry

\* Three participants, two winners, and the draw changed the order.
C1_Witness ==
    /\ Succeeded
    /\ line_count = 3
    /\ num_winners = 2
    /\ Len(WinnerLines) = 2
    /\ WinnerEntries # SubSeq(orig, 1, 2)

(* -------------------------------- C2 ----------------------------------- *)

LFPositions(f) == {k \in 1..Len(f) : f[k] = LF}

\* Where the lines of f start: at 1 and after every LF, within f.
LineStarts(f) == {s \in {1} \cup {k + 1 : k \in LFPositions(f)} : s <= Len(f)}

\* The line of f that starts at s, its terminating LF included.
LineAt(f, s) ==
    LET ends == {k \in LFPositions(f) : k >= s}
        e    == IF ends = {} THEN Len(f)
                ELSE CHOOSE k \in ends : \A m \in ends : k <= m
    IN  SubSeq(f, s, e)

\* t without its trailing CR and LF characters.
Stripped(t) ==
    LET keep == {k \in 0..Len(t) : k = 0 \/ t[k] \notin {CR, LF}}
    IN  SubSeq(t, 1, CHOOSE k \in keep : \A m \in keep : m <= k)

\* The lines of f, stripped, those that become empty left out, in order.
ExpectedLines(f) ==
    LET S == {s \in LineStarts(f) : Stripped(LineAt(f, s)) # <<>>}
        nth(k) == CHOOSE s \in S : Cardinality({t \in S : t < s}) = k - 1
    IN  [k \in 1..Cardinality(S) |-> Stripped(LineAt(f, nth(k)))]

\* C2: when read_lines returns 0 the list holds exactly the file's lines,
\* stripped of trailing CR and LF, the empty ones dropped, in order: one
\* entry per non-empty line, however long the line.
C2_OneEntryPerLine ==
    (pc = "loaded" /\ result = 0) =>
        /\ line_count = Len(ExpectedLines(file0))
        /\ Texts(arr, line_count) = ExpectedLines(file0)

\* No line of f, its terminator included, is longer than one fgets takes.
ShortLines(f) ==
    \A s \in LineStarts(f) : Len(LineAt(f, s)) <= MAX_LINE_LENGTH - 1

\* What read_lines does keep of C2: the statement for files whose lines fit
\* the buffer.
C2_ShortLinesLoaded ==
    (pc = "loaded" /\ result = 0 /\ ShortLines(file0)) =>
        /\ line_count = Len(ExpectedLines(file0))
        /\ Texts(arr, line_count) = ExpectedLines(file0)

(* -------------------------------- C3 ----------------------------------- *)

\* C3: main returns 0 exactly when argc is 3, the winner count is positive,
\* the file opens, no allocation fails, and the list holds at least one and
\* at least num_winners entries; otherwise it returns 1.
C3_ExitCode ==
    pc = "exit" =>
        /\ exit_code \in {0, 1}
        /\ exit_code = 0 <=>
            /\ argc = 3
            /\ Atoi(argv2) > 0
            /\ fileReadable
            /\ ~oom
            /\ stored >= 1
            /\ Atoi(argv2) <= stored

\* More winners asked for than there are participants.
C3_Witness ==
    /\ pc = "exit"
    /\ exit_code = 1
    /\ stored = 3
    /\ Atoi(argv2) = 4
    /\ ~oom

(* -------------------------------- C4 ----------------------------------- *)

\* C4: a run that returns 1 has written no header line and no winner line
\* to standard output, and shuffle and the output loop were never reached.
C4_NoPartialOutput ==
    (pc = "exit" /\ exit_code = 1) =>
        /\ SelectSeq(stdout, IsDrawLine) = <<>>
        /\ orig = <<>>
        /\ draws = <<>>

\* The file was opened and read to its end, and held no usable line.
C4_Witness ==
    /\ pc = "exit"
    /\ exit_code = 1
    /\ fileState = "closed"
    /\ result = 0
    /\ stored = 0
    /\ file0 # <<>>
    /\ stderr # <<>>

(* -------------------------------- C5 ----------------------------------- *)

LineBlocks == {p \in 1..Len(heap) : heap[p].kind = "line"}

C6_ShufflePrecondition ==
    pc = "shuffle" =>
        /\ result = 0
        /\ fileState = "closed"
        /\ ~oom
        /\ line_count = stored
        /\ Len(arr) = line_count
        /\ line_count >= 1
        /\ 1 <= num_winners
        /\ num_winners <= line_count

\* shuffle has just been called for one winner of a list of one.
C6_Witness ==
    /\ pc = "shuffle"
    /\ i = 0
    /\ draws = <<>>
    /\ line_count = 1
    /\ num_winners = 1

(* -------------------------------- C7 ----------------------------------- *)

\* a holds every entry of b at exactly one position, and nothing else.
IsPermutation(a, b) ==
    /\ Len(a) = Len(b)
    /\ \A p \in Range(a) \cup Range(b) :
        Cardinality({k \in 1..Len(a) : a[k] = p})
            = Cardinality({k \in 1..Len(b) : b[k] = p})

\* C7: during and after shuffle the array holds each entry of the list it
\* was given at exactly one position; and a run with num_winners =
\* line_count prints every entry exactly once.
C7_ShufflePermutes ==
    /\ InOrAfterShuffle =>
        /\ IsPermutation(arr, orig)
        /\ \A k, m \in 1..Len(orig) : k # m => orig[k] # orig[m]
    /\ (Succeeded /\ num_winners = line_count) =>
        \A p \in Range(orig) :
            Cardinality({k \in 1..Len(WinnerEntries) : WinnerEntries[k] = p}) = 1

\* All three participants win, in an order that is not the file's.
C7_Witness ==
    /\ Succeeded
    /\ line_count = 3
    /\ num_winners = 3
    /\ WinnerEntries = <<orig[3], orig[1], orig[2]>>

(* -------------------------------- C8 ----------------------------------- *)

\* C8: iteration k of shuffle draws an index in k .. line_count - 1; the
\* draw sequences number line_count!, they yield line_count! arrangements,
\* each a permutation of the list,
\* only the sequence drawn yields the arrangement reached, and the first
\* num_winners positions reached are yielded by (line_count - num_winners)!
\* of them.
C8_DrawsBijective ==
    /\ InOrAfterShuffle =>
        \A k \in 1..Len(draws) :
            k - 1 <= draws[k] /\ draws[k] <= line_count - 1
    /\ AfterShuffle =>
        LET D == DrawSeqs(line_count)
        IN  /\ draws \in D
            /\ Cardinality(D) = Fact(line_count)
            /\ \A d \in D : IsPermutation(ShuffleWith(orig, d), orig)
            /\ Cardinality({ShuffleWith(orig, d) : d \in D}) = Fact(line_count)
            /\ \A d \in D : ShuffleWith(orig, d) = arr <=> d = draws
            /\ Cardinality({d \in D :
                    Prefix(ShuffleWith(orig, d), num_winners)
                        = Prefix(arr, num_winners)})
                 = Fact(line_count - num_winners)

\* A list of MaxLines entries whose shuffle drew the last index every time.
C8_Witness ==
    /\ pc = "header"
    /\ line_count = MaxLines
    /\ num_winners = 2
    /\ \A k \in 1..Len(draws) : draws[k] = line_count - 1

(* -------------------------------- C9 ----------------------------------- *)

\* Iterations of shuffle that fix the first n positions of a list of count.
EarlyStop(n, count) == Min(n, count - 1)

\* C9: once iteration k of shuffle is over, positions 0 .. k are those the
\* first k + 1 draws made and no later iteration changes them; so the
\* winners printed are those of a shuffle stopped after
\* min(num_winners, line_count - 1) iterations with the same draws.
C9_RemainderUnobservable ==
    /\ InOrAfterShuffle =>
        \A k \in 0..Len(draws) :
            Prefix(arr, k) = Prefix(ShuffleWith(orig, Prefix(draws, k)), k)
    /\ AfterShuffle =>
        Prefix(arr, num_winners)
            = Prefix(ShuffleWith(orig,
                        Prefix(draws, EarlyStop(num_winners, line_count))),
                     num_winners)
    /\ Succeeded =>
        WinnerEntries
            = Prefix(ShuffleWith(orig,
                        Prefix(draws, EarlyStop(num_winners, line_count))),
                     num_winners)

\* One winner of four, and the later iterations did move the remainder.
C9_Witness ==
    /\ Succeeded
    /\ line_count = 4
    /\ num_winners = 1
    /\ arr # ShuffleWith(orig, Prefix(draws, 1))
    /\ WinnerEntries # <<orig[1]>>

(* -------------------------------- C10 ---------------------------------- *)

\* C10: no block is ever freed twice and no freed line buffer is read; and
\* when main returns after fopen succeeded, every block read_lines allocated
\* has been freed once, free_lines (if called) was given the number of
\* entries stored, and the file was closed once.
C10_ResourcesReleased ==
    /\ \A p \in 1..Len(heap) : heap[p].frees <= 1
    /\ ~uaf
    /\ closes <= 1
    /\ (pc = "exit" /\ fileState # "unopened") =>
        /\ \A p \in 1..Len(heap) : heap[p].frees = 1
        /\ freeArg # -1 => freeArg = stored
        /\ (stored > 0 /\ lines # NULL) => freeArg = stored
        /\ fileState = "closed"
        /\ closes = 1

\* The array was full, growing it failed, and main has returned.
C10_Witness ==
    /\ pc = "exit"
    /\ result = -2
    /\ stored = INITIAL_CAPACITY
    /\ capacity = 2 * INITIAL_CAPACITY
    /\ Len(heap) = INITIAL_CAPACITY + 1
    /\ freeArg = INITIAL_CAPACITY

=============================================================================
